---- MODULE Spec2Model ----
(***************************************************************************)
(* The open-addressing hash map of src/utils/data_structures/hashmap.c.    *)
(*                                                                         *)
(* The map structure (struct hashmap) is the variable q; every exported    *)
(* function is an operator named as in the source, computed as the C code  *)
(* computes it, and every call a client can make is one action.            *)
(*                                                                         *)
(* Two things the C code leaves to the platform are inputs of the actions: *)
(*   mem       whether calloc() returns memory;                            *)
(*   nullread  what reading old[i]->value through a null old[i] does in    *)
(*             hashmap_rehash (undefined behaviour): the process faults,   *)
(*             or the read yields zero, or it yields a non-zero word.      *)
(***************************************************************************)
EXTENDS Integers, Sequences, FiniteSets, TLC

VARIABLES
    pc,      \* "start" | "ready" | "nomap" | "nodata" | "fault" | "hang" | "undefined"
    q,       \* struct hashmap: data_size, data_cnt, data
    lastOp,  \* the last hashmap_init, hashmap_insert or hashmap_erase call
    live,    \* history: key -> Never, Erased, or the value it was inserted with
    nomem    \* history: how many calloc() calls have failed

vars == <<pc, q, lastOp, live, nomem>>

---------------------------------------------------------------------------
(* Program constants *)

HASHMAP_DEFAULT_DATA_SIZE == 4
HASHMAP_DEFAULT_PRIME == 313
\* 0.8 and 0.2, in tenths
HASHMAP_DEFAULT_GROW_THRESHOLD == 8
HASHMAP_DEFAULT_SHRINK_THRESHOLD == 2
Tenths == 10
\* ui_t is a 32-bit unsigned integer.  The hash is used only modulo
\* data_size, a power of two that divides 2^16, so the model keeps the low
\* 16 bits of it: (res*prime + byte) mod 2^32 mod 2^16 = (res*prime + byte) mod 2^16.
UI_LOW_BITS == 16
UI_MOD == 2 ^ UI_LOW_BITS

---------------------------------------------------------------------------
(* Bounds of the model *)

\* the table may double at most this many times from its default size
MaxDoublings == 2
\* at most this many calloc() failures in one run
MaxAllocFail == 2

MaxDataSize == HASHMAP_DEFAULT_DATA_SIZE * (2 ^ MaxDoublings)

\* the probe function is examined on tables of 2^0 .. 2^MaxProbeBits slots
MaxProbeBits == 4

\* Keys are byte strings.  With the default hash, <<1>>, <<5>> and <<1, 0>>
\* (hash 313) all start probing at slot 1 of a 4-slot table; "a" .. "f" are
\* the one-byte keys 97 .. 102.
Keys == {<<1>>, <<5>>, <<1, 0>>}
DupKeys == {<<1>>, <<5>>}
LoadKeys == {<<97>>, <<98>>, <<99>>, <<100>>, <<101>>, <<102>>}
LoadEraseKeys == {<<97>>, <<98>>}
AllKeys == Keys \cup DupKeys \cup LoadKeys

NULL == <<>>

\* live[k]: k was never inserted; k's last accepted insert or erase was an
\* erase; otherwise the value of the first accepted insert since
Never == -1
Erased == -2

\* struct hashmap_pair, as hashmap_pair_generate builds it
hashmap_pair_generate(key, value) == [key |-> key, value |-> value]

\* The pairs the clients insert: value 0 is the null pointer
Pairs == {hashmap_pair_generate(<<1>>, 1), hashmap_pair_generate(<<5>>, 2),
          hashmap_pair_generate(<<1, 0>>, 0)}
DupPairs == {hashmap_pair_generate(<<1>>, 1), hashmap_pair_generate(<<1>>, 0),
             hashmap_pair_generate(<<5>>, 1), hashmap_pair_generate(<<5>>, 2)}
LoadPairs == {hashmap_pair_generate(<<97>>, 1), hashmap_pair_generate(<<98>>, 2),
              hashmap_pair_generate(<<99>>, 0), hashmap_pair_generate(<<100>>, 0),
              hashmap_pair_generate(<<101>>, 0), hashmap_pair_generate(<<102>>, 0)}

\* Results of the probe function and of a call
HANG == -1
NullReads == {"fault", "zero", "nonzero"}

---------------------------------------------------------------------------
(* Keys, hashing, probing *)

\* memcmp over n bytes: the difference at the first byte that differs
RECURSIVE memcmp(_, _, _, _)
memcmp(a, b, i, n) ==
    IF i > n THEN 0
    ELSE IF a[i] # b[i] THEN a[i] - b[i]
    ELSE memcmp(a, b, i + 1, n)

\* both keys non-null here: the map never stores or is asked for a null key
hashmap_key_cmp(key1, key2) ==
    IF Len(key1) # Len(key2) THEN Len(key1) - Len(key2)
    ELSE memcmp(key1, key2, 1, Len(key1))

RECURSIVE HashLoop(_, _, _, _)
HashLoop(key, i, res, prime) ==
    IF i > Len(key) THEN res
    ELSE HashLoop(key, i + 1, (res * prime + key[i]) % UI_MOD, prime)

hashmap_default_hash_func(key, prime) == HashLoop(key, 1, 0, prime)

\* ProbeLoop stepping by the constant 1 + 1 instead of by incri
RECURSIVE ProbeLoop_EvenStep(_, _, _, _)
ProbeLoop_EvenStep(h, src, incri, key) ==
    IF h.data[src] # NULL /\ hashmap_key_cmp(h.data[src].key, key) # 0
    THEN IF incri > 2 * h.data_size THEN HANG
         ELSE ProbeLoop_EvenStep(h, (src + 1 + 1) % h.data_size, incri + 1, key)
    ELSE src

\* The while loop of the probe function.  The positions src, src+1, src+1+2, ...
\* modulo data_size repeat with period 2*data_size, so a loop that has not
\* stopped after 2*data_size steps never stops: HANG.
RECURSIVE ProbeLoop(_, _, _, _)
ProbeLoop(h, src, incri, key) ==
    IF h.data[src] # NULL /\ hashmap_key_cmp(h.data[src].key, key) # 0
    THEN IF incri > 2 * h.data_size THEN HANG
         ELSE ProbeLoop(h, (src + incri) % h.data_size, incri + 1, key)
    ELSE src

hashmap_default_probe_func(h, src, key) ==
    ProbeLoop(h, src % h.data_size, 1, key)

EmptyData(size) == [i \in 0 .. size - 1 |-> NULL]

Slots(h) == 0 .. h.data_size - 1

\* The number of slots the while loop of the probe function examines before
\* it stops, HANG if it never stops
RECURSIVE ExaminedLoop(_, _, _, _)
ExaminedLoop(h, src, incri, key) ==
    IF h.data[src] # NULL /\ hashmap_key_cmp(h.data[src].key, key) # 0
    THEN IF incri > 2 * h.data_size THEN HANG
         ELSE ExaminedLoop(h, (src + incri) % h.data_size, incri + 1, key)
    ELSE incri

Examined(h, key) ==
    ExaminedLoop(h, hashmap_default_hash_func(key, HASHMAP_DEFAULT_PRIME) % h.data_size,
                 1, key)

---------------------------------------------------------------------------
(* What a call does: the map it leaves, what it returns, how it ends       *)
(* ("ok": it returns; "fault": a null read faulted; "hang": the probe loop *)
(* never stops), what became of a resize it attempted, and whether         *)
(* hashmap_rehash read through a null slot.                                *)

Res(h, ret, st, resize, nullderef) ==
    [q |-> h, ret |-> ret, st |-> st, resize |-> resize, nullderef |-> nullderef]

NoRet == -2

RECURSIVE hashmap_insert(_, _, _, _)
RECURSIVE RehashLoop(_, _, _, _, _, _, _)

\* After hashmap_insert(q, old[i]) has ended as r: the loop goes on with the
\* next slot, unless the call did not return.  The return value is dropped.
RehashNext(r, old, old_size, i, mem, nullread, nd) ==
    IF r.st # "ok" THEN Res(r.q, NoRet, r.st, "none", nd \/ r.nullderef)
    ELSE RehashLoop(r.q, old, old_size, i + 1, mem, nullread, nd \/ r.nullderef)

\* for(i=0; i<old_size; i++) if(old[i]->value) hashmap_insert(q, old[i]);
\* h is the map with its new array, nd whether a null slot has been read.
\* Reading old[i]->value through a null old[i] faults, or yields zero (the
\* slot is skipped), or yields another word (hashmap_insert(q, NULL)).
RehashLoop(h, old, old_size, i, mem, nullread, nd) ==
    IF i >= old_size THEN Res(h, 0, "ok", "none", nd)
    ELSE IF old[i] = NULL
    THEN IF nullread = "fault" THEN Res(h, NoRet, "fault", "none", TRUE)
         ELSE IF nullread = "zero"
         THEN RehashLoop(h, old, old_size, i + 1, mem, nullread, TRUE)
         ELSE RehashNext(hashmap_insert(h, NULL, mem, nullread),
                         old, old_size, i, mem, nullread, TRUE)
    ELSE IF old[i].value # 0
    THEN RehashNext(hashmap_insert(h, old[i], mem, nullread),
                    old, old_size, i, mem, nullread, nd)
    ELSE RehashLoop(h, old, old_size, i + 1, mem, nullread, nd)

\* hashmap_rehash with q->data_cnt = 0 left out
hashmap_rehash_KeepCnt(h, new_size, old, old_size, mem, nullread) ==
    IF ~mem
    THEN Res([h EXCEPT !.data = old], -1, "ok", "nomem", FALSE)
    ELSE RehashLoop([data_size |-> new_size, data_cnt |-> h.data_cnt,
                     data |-> EmptyData(new_size)],
                    old, old_size, 0, mem, nullread, FALSE)

\* calloc of the new array; on failure q->data = old and -1; else the new
\* size, data_cnt = 0 and the loop over the old array
hashmap_rehash(h, new_size, old, old_size, mem, nullread) ==
    IF ~mem
    THEN Res([h EXCEPT !.data = old], -1, "ok", "nomem", FALSE)
    ELSE RehashLoop([data_size |-> new_size, data_cnt |-> 0,
                     data |-> EmptyData(new_size)],
                    old, old_size, 0, mem, nullread, FALSE)

\* what a resize that returned 0 is recorded as
Resized(r, how) ==
    IF r.ret = 0 /\ r.st = "ok" THEN [r EXCEPT !.resize = how] ELSE r

hashmap_grow(h, mem, nullread) ==
    Resized(hashmap_rehash(h, h.data_size * 2, h.data, h.data_size, mem, nullread),
            "grown")

\* hashmap_shrink with the floor test left out
hashmap_shrink_NoFloor(h, mem, nullread) ==
    Resized(hashmap_rehash(h, h.data_size \div 2, h.data, h.data_size,
                           mem, nullread),
            "shrunk")

\* if(q->data_size<=4) return 1; else rehash into half the size
hashmap_shrink(h, mem, nullread) ==
    IF h.data_size <= 4 THEN Res(h, 1, "ok", "floor", FALSE)
    ELSE Resized(hashmap_rehash(h, h.data_size \div 2, h.data, h.data_size,
                                mem, nullread),
                 "shrunk")

\* GrowLimit rounded up instead of truncated
GrowLimit_Ceil(h) ==
    (h.data_size * HASHMAP_DEFAULT_GROW_THRESHOLD + Tenths - 1) \div Tenths

\* (ui_t)(q->data_size*q->grow_threshold)
GrowLimit(h) == (h.data_size * HASHMAP_DEFAULT_GROW_THRESHOLD) \div Tenths

\* InsertAt with the store into the slot left out
InsertAt_NoStore(h, judge_pos, data, g) ==
    IF judge_pos = HANG THEN Res(h, NoRet, "hang", g.resize, g.nullderef)
    ELSE IF h.data[judge_pos] # NULL
    THEN Res(h, 1, "ok", g.resize, g.nullderef)
    ELSE Res([h EXCEPT !.data_cnt = h.data_cnt + 1], 0, "ok", g.resize, g.nullderef)

\* if(q->data[judge_pos]) return 1; else { q->data[judge_pos] = data; ... }
\* g is how the grow before it ended, h the map it left.
InsertAt(h, judge_pos, data, g) ==
    IF judge_pos = HANG THEN Res(h, NoRet, "hang", g.resize, g.nullderef)
    ELSE IF h.data[judge_pos] # NULL
    THEN Res(h, 1, "ok", g.resize, g.nullderef)
    ELSE Res([h EXCEPT !.data[judge_pos] = data, !.data_cnt = h.data_cnt + 1],
             0, "ok", g.resize, g.nullderef)

\* hashval = hash_func(&data->key, prime); judge_pos = probe_func(q, hashval, ...)
InsertProbe(g, data) ==
    IF g.st # "ok" THEN g
    ELSE InsertAt(g.q,
                  hashmap_default_probe_func(g.q,
                      hashmap_default_hash_func(data.key, HASHMAP_DEFAULT_PRIME),
                      data.key),
                  data, g)

\* q is never null once hashmap_init has returned a map; data may be NULL
hashmap_insert(h, data, mem, nullread) ==
    IF data = NULL THEN Res(h, -1, "ok", "none", FALSE)
    ELSE InsertProbe(IF h.data_cnt >= GrowLimit(h)
                     THEN hashmap_grow(h, mem, nullread)
                     ELSE Res(h, 0, "ok", "none", FALSE),
                     data)

FindAt(h, judge_pos) ==
    IF judge_pos = HANG THEN Res(h, NoRet, "hang", "none", FALSE)
    ELSE IF h.data[judge_pos] # NULL
    THEN Res(h, h.data[judge_pos].value, "ok", "none", FALSE)
    ELSE Res(h, 0, "ok", "none", FALSE)

\* returns the value (0 is the null pointer); free_key only frees the
\* caller's key structure
hashmap_find(h, key) ==
    FindAt(h, hashmap_default_probe_func(h,
                  hashmap_default_hash_func(key, HASHMAP_DEFAULT_PRIME), key))

\* q->data_cnt < q->data_size*q->shrink_threshold, a comparison of doubles
BelowShrink(h) ==
    h.data_cnt * Tenths < h.data_size * HASHMAP_DEFAULT_SHRINK_THRESHOLD

\* the return value of hashmap_shrink is dropped: erase returns 0
EraseShrunk(s) == IF s.st # "ok" THEN s ELSE [s EXCEPT !.ret = 0]

\* q->data_cnt--; q->data[judge_pos] = NULL; then the shrink test on h1
EraseCleared(h1, mem, nullread) ==
    EraseShrunk(IF BelowShrink(h1) THEN hashmap_shrink(h1, mem, nullread)
                ELSE Res(h1, 0, "ok", "none", FALSE))

EraseAt(h, judge_pos, mem, nullread) ==
    IF judge_pos = HANG THEN Res(h, NoRet, "hang", "none", FALSE)
    ELSE IF h.data[judge_pos] # NULL
    THEN EraseCleared([h EXCEPT !.data_cnt = h.data_cnt - 1,
                                !.data[judge_pos] = NULL],
                      mem, nullread)
    ELSE Res(h, 1, "ok", "none", FALSE)

hashmap_erase(h, key, mem, nullread) ==
    EraseAt(h, hashmap_default_probe_func(h,
                   hashmap_default_hash_func(key, HASHMAP_DEFAULT_PRIME), key),
            mem, nullread)

\* calloc of the structure, then of the backing array, neither checked
hashmap_init_map == [data_size |-> HASHMAP_DEFAULT_DATA_SIZE, data_cnt |-> 0,
                     data |-> EmptyData(HASHMAP_DEFAULT_DATA_SIZE)]

NoMap == [data_size |-> 0, data_cnt |-> 0, data |-> NULL]

---------------------------------------------------------------------------
(* The platform: calloc() may fail, at most maxfail times in a run, and a  *)
(* read through a null pointer ends in one of NullReads.  An answer is     *)
(* drawn only by a call that asks for it.                                  *)

AsksAlloc(r) == r.resize \notin {"none", "floor"}

\* r0 is the call as it goes when every allocation succeeds and null reads
\* yield zero: it shows what the call asks of the platform
Answers(r0, maxfail) ==
    {a \in BOOLEAN \X NullReads :
        /\ a[1] \/ (AsksAlloc(r0) /\ nomem < maxfail)
        /\ a[2] = "zero" \/ (a[1] /\ r0.nullderef)}

Failed(r) == IF r.resize = "nomem" THEN 1 ELSE 0

---------------------------------------------------------------------------
(* The calls a client makes *)

Call(op, key, value, r) ==
    [op |-> op, key |-> key, value |-> value, ret |-> r.ret,
     resize |-> r.resize, nullderef |-> r.nullderef]

NoCall == [op |-> "none", key |-> NULL, value |-> 0, ret |-> NoRet,
           resize |-> "none", nullderef |-> FALSE]

Init ==
    /\ pc = "start"
    /\ q = NoMap
    /\ lastOp = NoCall
    /\ live = [k \in AllKeys |-> Never]
    /\ nomem = 0

\* hashmap_init(): memq, memd say whether the two calloc() calls succeed.
\* With no structure, q->data_size = ... writes through a null pointer:
\* the process faults, or the stores land and a null map is returned.
Initialize(memq, memd, nullwrite) ==
    /\ pc = "start"
    /\ pc' = IF ~memq THEN (IF nullwrite = "fault" THEN "fault" ELSE "nomap")
             ELSE IF ~memd THEN "nodata" ELSE "ready"
    /\ q' = IF ~memq THEN NoMap
            ELSE IF ~memd THEN [hashmap_init_map EXCEPT !.data = NULL]
            ELSE hashmap_init_map
    /\ lastOp' = [NoCall EXCEPT !.op = "init",
                                !.ret = IF memq THEN 0 ELSE NoRet]
    /\ nomem' = IF memq /\ memd THEN nomem ELSE nomem + 1
    /\ UNCHANGED live

Returned(r) == r.st = "ok"

InsertDone(r, data) ==
    /\ r.q.data_size <= MaxDataSize
    /\ pc' = IF Returned(r) THEN "ready" ELSE r.st
    /\ q' = r.q
    /\ lastOp' = IF data = NULL THEN Call("insert", NULL, 0, r)
                 ELSE Call("insert", data.key, data.value, r)
    /\ nomem' = nomem + Failed(r)
    /\ live' = IF Returned(r) /\ r.ret = 0 /\ live[data.key] \in {Never, Erased}
               THEN [live EXCEPT ![data.key] = data.value] ELSE live

\* hashmap_insert(q, data)
Insert(data, maxfail) ==
    /\ pc = "ready"
    /\ \E a \in Answers(hashmap_insert(q, data, TRUE, "zero"), maxfail) :
          InsertDone(hashmap_insert(q, data, a[1], a[2]), data)

FindDone(r) ==
    /\ pc' = IF Returned(r) THEN "ready" ELSE r.st
    /\ UNCHANGED <<q, lastOp, live, nomem>>

\* hashmap_find(q, key, free_key): the map is not changed
Find(key) ==
    /\ pc = "ready"
    /\ FindDone(hashmap_find(q, key))

EraseDone(r, key) ==
    /\ pc' = IF Returned(r) THEN "ready" ELSE r.st
    /\ q' = r.q
    /\ lastOp' = Call("erase", key, 0, r)
    /\ nomem' = nomem + Failed(r)
    /\ live' = IF Returned(r) /\ r.ret = 0
               THEN [live EXCEPT ![key] = Erased] ELSE live

\* hashmap_erase(q, key, free_key)
Erase(key, maxfail) ==
    /\ pc = "ready"
    /\ \E a \in Answers(hashmap_erase(q, key, TRUE, "zero"), maxfail) :
          EraseDone(hashmap_erase(q, key, a[1], a[2]), key)

\* With a null map every call returns its failure value at once
\* (NULL == q): -1 from insert and erase, NULL from find.
NullMapCall(op) ==
    /\ pc = "nomap"
    /\ lastOp' = [NoCall EXCEPT !.op = op, !.ret = IF op = "find" THEN 0 ELSE -1]
    /\ UNCHANGED <<pc, q, live, nomem>>

\* With a map whose backing array is null every call reads q->data[src]
\* through a null pointer: the process faults, or anything else happens.
NoDataCall(op, outcome) ==
    /\ pc = "nodata"
    /\ pc' = outcome
    /\ lastOp' = [NoCall EXCEPT !.op = op]
    /\ UNCHANGED <<q, live, nomem>>

\* Clients inserting `pairs` and looking up and erasing `keys`
Calls(pairs, keys, maxfail) ==
    \/ \E data \in pairs \cup {NULL} : Insert(data, maxfail)
    \/ \E key \in keys : Find(key)
    \/ \E key \in keys : Erase(key, maxfail)

\* Spec: three keys that collide, one of them with a null value; calloc()
\* may fail.
Next ==
    \/ \E memq, memd \in BOOLEAN, nw \in {"fault", "stored"} :
          /\ (memq /\ memd) \/ nomem < MaxAllocFail
          /\ memq \/ memd
          /\ memq => nw = "fault"
          /\ Initialize(memq, memd, nw)
    \/ Calls(Pairs, Keys, MaxAllocFail)
    \/ \E op \in {"insert", "find", "erase"} : NullMapCall(op)
    \/ \E op \in {"insert", "find", "erase"}, o \in {"fault", "undefined"} :
          NoDataCall(op, o)

Spec == Init /\ [][Next]_vars

\* SpecDup: two colliding keys, each inserted with two values; calloc()
\* never fails.
NextDup ==
    \/ Initialize(TRUE, TRUE, "fault")
    \/ Calls(DupPairs, DupKeys, 0)

SpecDup == Init /\ [][NextDup]_vars

\* SpecLoad: six keys that fill the table to its second doubling, four of
\* them with null values; the clients look up and erase "a" and "b" only;
\* calloc() never fails.
NextLoad ==
    \/ Initialize(TRUE, TRUE, "fault")
    \/ Calls(LoadPairs, LoadEraseKeys, 0)

SpecLoad == Init /\ [][NextLoad]_vars

\* SpecProbe: the probe function on its own.  The table is any power-of-two
\* array with every slot but one occupied by a pair whose key is not the one
\* looked for; the probe starts at any slot src (the hash of the key <<src>>).
ProbeSizes == {2 ^ b : b \in 0 .. MaxProbeBits}
Blocker == hashmap_pair_generate(<<255>>, 1)
FullData(size) == [i \in 0 .. size - 1 |-> Blocker]

InitProbe ==
    /\ pc = "probe"
    /\ \E size \in ProbeSizes :
          q = [data_size |-> size, data_cnt |-> size, data |-> FullData(size)]
    /\ lastOp = NoCall
    /\ live = [k \in AllKeys |-> Never]
    /\ nomem = 0

\* probe_func(q, src, key) on the table with slot e empty: ret is the slot it
\* returns, value the number of slots it examined
Probe(e, src) ==
    /\ pc = "probe"
    /\ pc' = "probed"
    /\ q' = [q EXCEPT !.data[e] = NULL, !.data_cnt = q.data_cnt - 1]
    /\ lastOp' = [NoCall EXCEPT !.op = "probe", !.key = <<src>>,
                                !.ret = hashmap_default_probe_func(q', src, <<src>>),
                                !.value = Examined(q', <<src>>)]
    /\ UNCHANGED <<live, nomem>>

NextProbe == \E e, src \in Slots(q) : Probe(e, src)

SpecProbe == InitProbe /\ [][NextProbe]_vars

---------------------------------------------------------------------------
(* The claims *)

Ready == pc = "ready"

\* hashmap_find(h, key) returns v
Is(r, v) == r.st = "ok" /\ r.ret = v
FindReturns(h, key, v) == Is(hashmap_find(h, key), v)

Occupied(h) == {i \in Slots(h) : h.data[i] # NULL}

RECURSIVE IsPowerOfTwo(_)
IsPowerOfTwo(n) == n = 1 \/ (n > 1 /\ n % 2 = 0 /\ IsPowerOfTwo(n \div 2))

\* the call just made: an insert that returned ret
Inserted(ret) == Ready /\ lastOp.op = "insert" /\ lastOp.ret = ret
\* the call just made: an erase that returned ret
ErasedNow(ret) == Ready /\ lastOp.op = "erase" /\ lastOp.ret = ret

\* C1: when hashmap_insert(K, V) with V non-null has returned 0, hashmap_find(K)
\* on the map it left returns V.
C1_RoundTrip ==
    (Inserted(0) /\ lastOp.value # 0) => FindReturns(q, lastOp.key, lastOp.value)

\* an accepted insert of a non-null value that grew an occupied table first
C1_Witness ==
    Inserted(0) /\ lastOp.value # 0 /\ lastOp.resize = "grown" /\ q.data_cnt >= 2

\* the step just taken is a call that returned and resized the table
ResizedStep == pc = "ready" /\ pc' = "ready" /\ lastOp'.resize \in {"grown", "shrunk"}

\* key k has a non-null value, was findable with it, and the call did not
\* insert or erase it
KeptLive(k) == live[k] > 0 /\ live'[k] = live[k] /\ FindReturns(q, k, live[k])

\* C2: when an insert grows or an erase shrinks the table, every key inserted
\* with a non-null value and not erased, findable with that value before the
\* call, is findable with it after the resize.
C2_ResizePreservesMembership ==
    [][ResizedStep => \A k \in AllKeys : KeptLive(k) => FindReturns(q', k, live[k])]_vars

\* C3: no two occupied slots of the backing array hold equal keys.
C3_KeyUniqueness ==
    Ready => \A i, j \in Occupied(q) :
                 i # j => hashmap_key_cmp(q.data[i].key, q.data[j].key) # 0

\* the step just taken is hashmap_insert, returned, of a key inserted before
\* and not erased since
InsertOfLive ==
    /\ pc = "ready" /\ pc' = "ready"
    /\ lastOp'.op = "insert" /\ lastOp'.key # NULL
    /\ live[lastOp'.key] \notin {Never, Erased}

\* C4: inserting a key that was inserted and not erased since returns 1
\* (duplicate), and hashmap_find on the key still returns the original value.
C4_DuplicateRejected ==
    [][InsertOfLive => /\ lastOp'.ret = 1
                       /\ FindReturns(q', lastOp'.key, live[lastOp'.key])]_vars

\* C5: an insert that returns 1 (duplicate) leaves data_size, data_cnt and
\* every slot as they were.
C5_RejectedInsertUnchanged ==
    [][(pc = "ready" /\ pc' = "ready" /\ lastOp'.op = "insert" /\ lastOp'.ret = 1)
          => q' = q]_vars

\* C6: once hashmap_erase(K) has returned 0, hashmap_find(K) returns NULL
\* until an insert of K is accepted again.
C6_ErasedNotFound ==
    Ready => \A k \in AllKeys : live[k] = Erased => FindReturns(q, k, 0)

\* the map h with slot i cleared and one pair fewer
ClearedAt(h, i) == [h EXCEPT !.data_cnt = h.data_cnt - 1, !.data[i] = NULL]

\* the step just taken is an erase whose shrink was refused at the floor
FloorStep ==
    pc = "ready" /\ pc' = "ready" /\ lastOp'.op = "erase" /\ lastOp'.resize = "floor"

\* C7: after hashmap_init and any calls, data_size is a power of two and at
\* least 4; an erase whose shrink is attempted at data_size 4 is refused: the
\* table is left as the erase made it (the erased slot cleared, one pair
\* fewer), still of size 4.
C7_CapacityInvariant ==
    [][/\ pc' = "ready" => IsPowerOfTwo(q'.data_size) /\ q'.data_size >= 4
       /\ FloorStep =>
            /\ q.data_size = 4
            /\ \E i \in Occupied(q) :
                  /\ hashmap_key_cmp(q.data[i].key, lastOp'.key) = 0
                  /\ q' = ClearedAt(q, i)]_vars

\* an erase has emptied a 4-slot table: its shrink was refused at the floor
C7_Witness ==
    /\ ErasedNow(0) /\ lastOp.resize = "floor"
    /\ q.data_size = 4 /\ q.data_cnt = 0

\* C8: whenever a call has returned, data_cnt is the number of non-null slots.
C8_CountInvariant == Ready => q.data_cnt = Cardinality(Occupied(q))

\* an erase has shrunk a table that still holds pairs
C8_Witness == ErasedNow(0) /\ lastOp.resize = "shrunk" /\ q.data_cnt >= 1

\* C9: after an insert that returned 0 or 1 and whose grow, if any, got its
\* memory, data_cnt <= data_size * 0.8.
C9_UpperLoadBound ==
    (Ready /\ lastOp.op = "insert" /\ lastOp.ret \in {0, 1} /\ lastOp.resize # "nomem")
        => q.data_cnt * Tenths <= q.data_size * HASHMAP_DEFAULT_GROW_THRESHOLD

\* an accepted insert that grew the table to 8 slots and left 3 pairs in it
C9_Witness ==
    Inserted(0) /\ lastOp.resize = "grown" /\ q.data_size = 8 /\ q.data_cnt = 3

\* C10: after an erase that returned 0 and whose shrink, if any, got its
\* memory, data_cnt >= data_size * 0.2 or data_size is 4.
C10_LowerLoadBound ==
    (ErasedNow(0) /\ lastOp.resize # "nomem")
        => \/ q.data_cnt * Tenths >= q.data_size * HASHMAP_DEFAULT_SHRINK_THRESHOLD
           \/ q.data_size = 4

\* the step just taken is hashmap_insert of a pair, and it returned
InsertStep ==
    pc = "ready" /\ pc' = "ready" /\ lastOp'.op = "insert" /\ lastOp'.key # NULL

\* occupied >= capacity * growThreshold, compared as real numbers
AtGrowThreshold(h) ==
    h.data_cnt * Tenths >= h.data_size * HASHMAP_DEFAULT_GROW_THRESHOLD

\* C11: an insert doubles the table first exactly when, at entry,
\* data_cnt >= data_size * 0.8 as real numbers; so inserts into a 4-slot
\* table holding fewer than 3.2 pairs leave it at 4 slots, and the insert
\* that finds 4 pairs in it grows it to 8.
C11_GrowTrigger ==
    [][InsertStep => (lastOp'.resize = "grown" <=> AtGrowThreshold(q))]_vars

\* C12: no call ends in a probe loop that never stops, and in every state a
\* call has left, the probe for any key examines at most data_size slots
\* before it reaches an empty slot or the key.
C12_BoundedOperations ==
    /\ pc # "hang"
    /\ Ready => \A k \in AllKeys : Examined(q, k) \in 1 .. q.data_size

\* the step just taken is a call whose resize got no memory
AllocFailStep == pc = "ready" /\ nomem' = nomem + 1

\* the call as it goes with no resize attempted: hashmap_insert from the
\* probe on, hashmap_erase up to the cleared slot
InsertNoResize(h, key, value) ==
    InsertProbe(Res(h, 0, "ok", "none", FALSE), hashmap_pair_generate(key, value))

\* C13: when the resize of an insert or erase cannot allocate the new array,
\* the call still returns, with the result and the table it would have had
\* with no resize attempted: data_size as before, the slots changed by the
\* placement or the clearing only.
C13_AllocFailureAbandonsResize ==
    [][AllocFailStep =>
        /\ pc' = "ready"
        /\ q'.data_size = q.data_size
        /\ lastOp'.op = "insert" =>
              /\ lastOp'.ret = InsertNoResize(q, lastOp'.key, lastOp'.value).ret
              /\ q' = InsertNoResize(q, lastOp'.key, lastOp'.value).q
        /\ lastOp'.op = "erase" =>
              /\ lastOp'.ret = 0
              /\ \E i \in Occupied(q) :
                    /\ hashmap_key_cmp(q.data[i].key, lastOp'.key) = 0
                    /\ q' = ClearedAt(q, i)]_vars

\* C14: hashmap_init returns a null handle when either of its allocations
\* fails (it neither faults nor returns a map with no backing array), and
\* otherwise a map of 4 empty slots with data_cnt 0.
C14_InitFailsCleanly ==
    [][pc = "start" =>
        IF nomem' = nomem
        THEN pc' = "ready" /\ q' = hashmap_init_map
        ELSE pc' = "nomap" /\ q' = NoMap]_vars

\* C15: on a table of any power-of-two size, from any starting slot, the
\* probe sequence src, src+1, src+1+2, ... reaches any slot within its first
\* data_size positions: with one slot empty, wherever it is, the probe for an
\* absent key returns that slot after examining at most data_size slots.
C15_ProbeReachesEverySlot ==
    pc = "probed" =>
        /\ lastOp.ret \in Slots(q)
        /\ q.data[lastOp.ret] = NULL
        /\ lastOp.value \in 1 .. q.data_size

\* on the largest table, a slot that is reached last: data_size slots examined
C15_Witness ==
    /\ pc = "probed" /\ q.data_size = 2 ^ MaxProbeBits
    /\ lastOp.value = q.data_size /\ q.data[lastOp.ret] = NULL

\* the step just taken is hashmap_erase of a key that was never inserted, or
\* whose last accepted insert or erase was an erase
EraseOfAbsent ==
    pc = "ready" /\ lastOp'.op = "erase" /\ live[lastOp'.key] \in {Never, Erased}

\* C16: hashmap_erase of a key that is not in the map returns 1 and leaves
\* data_size, data_cnt and every slot as they were.
C16_EraseAbsentUnchanged ==
    [][EraseOfAbsent => pc' = "ready" /\ lastOp'.ret = 1 /\ q' = q]_vars

\* the step just taken is an erase that returned 0 and resized nothing
EraseNoResizeStep ==
    /\ pc = "ready" /\ pc' = "ready"
    /\ lastOp'.op = "erase" /\ lastOp'.ret = 0
    /\ lastOp'.resize \in {"none", "floor"}
    /\ live'[lastOp'.key] = Erased

\* C17: after an erase of K that returned 0 and triggered no resize, every
\* other key that was inserted with a non-null value, not erased, and findable
\* with that value before the call is still found with it.
C17_EraseKeepsOtherKeys ==
    [][EraseNoResizeStep =>
        \A k \in AllKeys \ {lastOp'.key} :
            KeptLive(k) => FindReturns(q', k, live[k])]_vars

\* C18: no insert or erase has its grow or shrink read the value field
\* through a null slot of the old array (whatever that read then does).
C18_RehashReadsOccupiedOnly == ~lastOp.nullderef

====
